---------------------------- MODULE Spec2Model ----------------------------
(***************************************************************************)
(* A model of hooks/mypy_sync.py: the command that re-pins the             *)
(* additional_dependencies list of the mirrors-mypy entry of               *)
(* .pre-commit-config.yaml to the versions of a resolved version map.      *)
(*                                                                         *)
(* Text.  A string is a sequence of text atoms.  An atom is one character  *)
(* (" ", "=", "-", "#", the double quote, the line feed, ...) or an        *)
(* indivisible run of characters that holds no whitespace and none of the  *)
(* characters the program looks at ("types", "additional_dependencies:").  *)
(* A line is a string that ends with the line feed atom, as a Python file  *)
(* iterator yields it; a file is a sequence of lines.                      *)
(***************************************************************************)
EXTENDS Integers, Sequences, FiniteSets, TLC

(***************************************************************************)
(* Bounds of the model.                                                    *)
(***************************************************************************)
\* lines in the body of the mypy entry's list
MaxItems == 3
\* lines of the requirements file r1
MaxReqLines == 2
\* successive invocations of the command on the same working directory
MaxRuns == 2

-----------------------------------------------------------------------------
(***************************************************************************)
(* Python string primitives.                                               *)
(***************************************************************************)
NL == "\n"
SP == " "
EQ == "="
DQ == "\""

\* what str.strip() removes and what \s matches
Whitespace == {" ", "\t", "\n"}

RECURSIVE LStrip(_)
LStrip(s) ==
    IF s = <<>> THEN s
    ELSE IF Head(s) \in Whitespace THEN LStrip(Tail(s)) ELSE s

RECURSIVE RStrip(_)
RStrip(s) ==
    IF s = <<>> THEN s
    ELSE IF s[Len(s)] \in Whitespace THEN RStrip(SubSeq(s, 1, Len(s) - 1)) ELSE s

Strip(s) == LStrip(RStrip(s))

StartsWith(s, p) == Len(s) >= Len(p) /\ SubSeq(s, 1, Len(p)) = p

\* " " * n
Spaces(n) == [i \in 1..n |-> SP]

\* sum(1 for c in s if c == " ")
RECURSIVE CountSpaces(_)
CountSpaces(s) ==
    IF s = <<>> THEN 0
    ELSE (IF Head(s) = SP THEN 1 ELSE 0) + CountSpaces(Tail(s))

\* a variant that never splits: the whole specifier is taken for the name
SplitNameWhole(dep) == dep

\* dep.split("=", 1)[0]: the text before the first "=", all of it without one
RECURSIVE SplitName(_)
SplitName(dep) ==
    IF dep = <<>> THEN <<>>
    ELSE IF Head(dep) = EQ THEN <<>>
    ELSE <<Head(dep)>> \o SplitName(Tail(dep))

\* f"{name}=={version}"
Pinned(name, version) == name \o <<EQ, EQ>> \o version

\* f'{indent}  - "{dep}"\n'
ItemLine(indent, dep) == indent \o <<SP, SP, "-", SP, DQ>> \o dep \o <<DQ, NL>>

\* f"{name} not currently installed, skipping" as print() writes it
Diagnostic(name) == name \o <<" not currently installed, skipping", NL>>

-----------------------------------------------------------------------------
(***************************************************************************)
(* re.match(r"^(\S+)\s*==\s*(\S+)$", line), as a backtracking matcher      *)
(* runs it: group 1 is greedy, so the longest whitespace-free prefix after *)
(* which the rest of the pattern still matches is tried first.             *)
(***************************************************************************)
NoWhitespace(s) == \A i \in 1..Len(s) : s[i] \notin Whitespace

\* the length of the longest whitespace-free prefix: what (\S+) takes first
RECURSIVE NonSpaceRun(_)
NonSpaceRun(s) ==
    IF s = <<>> THEN 0
    ELSE IF Head(s) \in Whitespace THEN 0 ELSE 1 + NonSpaceRun(Tail(s))

\* a variant without the two \s*: ==(\S+)$
PinTailStrict(s) ==
    [ok |-> StartsWith(s, <<EQ, EQ>>) /\ Len(s) > 2
              /\ NoWhitespace(SubSeq(s, 3, Len(s))),
     version |-> SubSeq(s, 3, Len(s))]

\* \s*==\s*(\S+)$ against the text that follows group 1
PinTail(s) ==
    LET t == LStrip(s)
        u == IF StartsWith(t, <<EQ, EQ>>) THEN LStrip(SubSeq(t, 3, Len(t))) ELSE <<>>
    IN  [ok |-> StartsWith(t, <<EQ, EQ>>) /\ u # <<>> /\ NoWhitespace(u),
         version |-> u]

RECURSIVE PinBacktrack(_, _)
PinBacktrack(s, i) ==
    IF i = 0 THEN [ok |-> FALSE, name |-> <<>>, version |-> <<>>]
    ELSE LET rest == PinTail(SubSeq(s, i + 1, Len(s)))
         IN  IF rest.ok
             THEN [ok |-> TRUE, name |-> SubSeq(s, 1, i), version |-> rest.version]
             ELSE PinBacktrack(s, i - 1)

PinMatch(line) == PinBacktrack(line, NonSpaceRun(line))

-----------------------------------------------------------------------------
(***************************************************************************)
(* yaml.safe_load and the lookups of do(), for the block-style subset of   *)
(* YAML a pre-commit configuration is written in: a list of `- repo: URL`  *)
(* entries, each with `- id: NAME` hooks, each hook with keys, the         *)
(* additional_dependencies key holding a block sequence of scalars.        *)
(* Comments and blank lines carry no structure.                            *)
(***************************************************************************)
MypyUrl == "https://github.com/pre-commit/mirrors-mypy"
Key == "additional_dependencies:"

\* the run of spaces a line starts with
RECURSIVE LeadingSpaces(_)
LeadingSpaces(s) ==
    IF s = <<>> THEN 0
    ELSE IF Head(s) = SP THEN 1 + LeadingSpaces(Tail(s)) ELSE 0

\* a "#" at the start of the text or after whitespace opens a comment
RECURSIVE CutComment(_, _)
CutComment(s, prev) ==
    IF s = <<>> THEN <<>>
    ELSE IF Head(s) = "#" /\ prev \in Whitespace THEN <<>>
    ELSE <<Head(s)>> \o CutComment(Tail(s), Head(s))

\* what a line holds once indentation, comment and line end are taken off
YamlContent(line) == RStrip(CutComment(LStrip(line), SP))

\* a double-quoted scalar's value (no escapes in the subset)
Unquote(s) ==
    IF Len(s) >= 2 /\ s[1] = DQ /\ s[Len(s)] = DQ
    THEN SubSeq(s, 2, Len(s) - 1) ELSE s

IsRepoLine(line) == StartsWith(YamlContent(line), <<"-", SP, "repo:", SP>>)
RepoUrl(line) == Unquote(SubSeq(YamlContent(line), 5, Len(YamlContent(line))))
IsHookLine(line) == StartsWith(YamlContent(line), <<"-", SP, "id:">>)
IsKeyLine(line) == YamlContent(line) = <<Key>>
IsItemLine(line) ==
    /\ StartsWith(YamlContent(line), <<"-", SP>>)
    /\ ~IsRepoLine(line)
    /\ ~IsHookLine(line)
ItemScalar(line) == Unquote(SubSeq(YamlContent(line), 3, Len(YamlContent(line))))

\* the least element of a set of line numbers, 0 for the empty set
First(S) == IF S = {} THEN 0 ELSE CHOOSE i \in S : \A j \in S : i <= j

\* the block sequence that is the value of the key on line k: its scalars,
\* the indices of its item lines, and whether the parser rejects it (items of
\* one sequence at different indentations)
RECURSIVE BlockScan(_, _, _, _)
BlockScan(file, j, keyIndent, ind) ==
    IF j > Len(file) THEN [err |-> FALSE, deps |-> <<>>, idx |-> {}]
    ELSE IF YamlContent(file[j]) = <<>> THEN BlockScan(file, j + 1, keyIndent, ind)
    ELSE IF ~IsItemLine(file[j]) \/ LeadingSpaces(file[j]) < keyIndent
         THEN [err |-> FALSE, deps |-> <<>>, idx |-> {}]
    ELSE IF ind >= 0 /\ LeadingSpaces(file[j]) # ind
         THEN [err |-> TRUE, deps |-> <<>>, idx |-> {}]
    ELSE LET rest == BlockScan(file, j + 1, keyIndent, LeadingSpaces(file[j]))
         IN  [err |-> rest.err,
              deps |-> <<ItemScalar(file[j])>> \o rest.deps,
              idx |-> {j} \cup rest.idx]

Block(file, k) == BlockScan(file, k + 1, LeadingSpaces(file[k]), -1)

\* yaml.safe_load raises on a document it cannot parse
SafeLoadFails(file) ==
    \E k \in 1..Len(file) : IsKeyLine(file[k]) /\ Block(file, k).err

\* [tool for tool in cfg["repos"] if tool["repo"] == url][0]
\*     ["hooks"][0]["additional_dependencies"], and the exception when one of
\* the lookups fails ("" when none does)
Lookup(file, url) ==
    LET r == First({i \in 1..Len(file) :
                       IsRepoLine(file[i]) /\ RepoUrl(file[i]) = <<url>>})
        rNext == First({i \in r + 1..Len(file) : IsRepoLine(file[i])})
        rEnd == IF rNext = 0 THEN Len(file) ELSE rNext - 1
        h == First({i \in r + 1..rEnd : IsHookLine(file[i])})
        hNext == First({i \in h + 1..rEnd : IsHookLine(file[i])})
        hEnd == IF hNext = 0 THEN rEnd ELSE hNext - 1
        k == First({i \in h + 1..hEnd : IsKeyLine(file[i])})
        none == [err |-> "", deps |-> <<>>, key |-> 0, idx |-> {}]
    IN  IF SafeLoadFails(file) THEN [none EXCEPT !.err = "YAMLError"]
        ELSE IF r = 0 \/ h = 0 THEN [none EXCEPT !.err = "IndexError"]
        ELSE IF k = 0 THEN [none EXCEPT !.err = "KeyError"]
        ELSE IF Block(file, k).deps = <<>> THEN [none EXCEPT !.err = "TypeError", !.key = k]
        ELSE [err |-> "", deps |-> Block(file, k).deps, key |-> k,
              idx |-> Block(file, k).idx]

-----------------------------------------------------------------------------
(***************************************************************************)
(* UpdateDependencies.handle and the pure parts of do() and main().        *)
(***************************************************************************)
\* one call of handle(line): the lines it yields and the cursor it leaves
HandleLine(st, ind, nd, line) ==
    CASE st = "pre" ->
           IF Strip(line) = <<Key>>
           THEN [yield |-> <<line>>, state |-> "in-deps",
                 indent |-> Spaces(CountSpaces(RStrip(line)))]
           ELSE [yield |-> <<line>>, state |-> "pre", indent |-> ind]
      [] st = "in-deps" ->
           [yield |-> [i \in 1..Len(nd) |-> ItemLine(ind, nd[i])],
            state |-> "skip-old-deps", indent |-> ind]
      [] st = "skip-old-deps" ->
           IF ~StartsWith(line, ind \o <<SP, SP, "-">>)
           THEN [yield |-> <<line>>, state |-> "post", indent |-> ind]
           ELSE [yield |-> <<>>, state |-> "skip-old-deps", indent |-> ind]
      [] st = "post" ->
           [yield |-> <<line>>, state |-> "post", indent |-> ind]

\* the body of do()'s loop: the entry appended to new_deps for dep
NewDep(dep, versions) ==
    IF SplitName(dep) \in DOMAIN versions
    THEN Pinned(SplitName(dep), versions[SplitName(dep)])
    ELSE dep

\* pip_args: "-r", FILE per requirements file, then every --pip-install SPEC
RECURSIVE ReqArgs(_)
ReqArgs(reqs) ==
    IF reqs = <<>> THEN <<>> ELSE <<"-r", Head(reqs)>> \o ReqArgs(Tail(reqs))

PipArgs(o) == ReqArgs(o.requirements) \o o.pip_install

\* a variant without the else branch: --no-install always parses
BranchWithoutElse(o) == IF ~o.no_install THEN "install" ELSE "parse"

\* the branch of main() that builds package_versions
Branch(o) ==
    IF ~o.no_install THEN "install"
    ELSE IF o.requirements # <<>> THEN "parse"
    ELSE "introspect"

\* package_versions[name] = version
Store(versions, name, version) ==
    [n \in DOMAIN versions \cup {name} |->
        IF n = name THEN version ELSE versions[n]]

-----------------------------------------------------------------------------
(***************************************************************************)
(* The inputs of a run: the command line, the requirements files, the      *)
(* installed distributions and the configuration file.                     *)
(***************************************************************************)
\* all sequences over S of length at most n
RECURSIVE SeqsUpTo(_, _)
SeqsUpTo(S, n) ==
    IF n = 0 THEN {<<>>}
    ELSE LET shorter == SeqsUpTo(S, n - 1)
         IN  shorter \cup {Append(q, x) : q \in shorter, x \in S}

OtherUrl == "https://github.com/psf/black"

RepoLine(url) == <<"-", SP, "repo:", SP, url, NL>>
HooksLine == <<SP, SP, "hooks:", NL>>
HookLine(id) == <<SP, SP, "-", SP, "id:", SP, id, NL>>
KeyLine == Spaces(4) \o <<Key, NL>>
KeyLineWithComment == Spaces(4) \o <<Key, SP, "#", SP, "stubs", NL>>
Item(n, dep) == Spaces(n) \o <<"-", SP>> \o dep \o <<NL>>
CommentLine == Spaces(6) \o <<"#", SP, "pinned", NL>>
ArgsLine == Spaces(4) \o <<"args:", SP, "[--strict]", NL>>

\* the lines a dependency list is written with
BodyLines ==
    { Item(6, <<"a">>), Item(6, <<"b", ">", EQ, "2">>), Item(4, <<"a", EQ, EQ, "2">>),
      CommentLine }

OtherEntry ==
    <<RepoLine(OtherUrl), HooksLine, HookLine("black"), KeyLine, Item(6, <<"z">>)>>

MypyEntries ==
    {<<RepoLine(MypyUrl), HooksLine, HookLine("mypy")>> \o k \o body :
        k \in {<<KeyLine>>, <<KeyLineWithComment>>},
        body \in SeqsUpTo(BodyLines, MaxItems)}
    \cup {<<RepoLine(MypyUrl), HooksLine, HookLine("mypy")>>, <<>>}

Configs ==
    {<<<<"repos:", NL>>>> \o before \o entry \o after :
        before \in {<<>>, OtherEntry},
        entry \in MypyEntries,
        after \in {<<>>, <<ArgsLine>>, OtherEntry}}

BasicConfig ==
    <<<<"repos:", NL>>, RepoLine(MypyUrl), HooksLine, HookLine("mypy"), KeyLine,
      Item(6, <<"a">>), Item(6, <<"b", ">", EQ, "2">>), ArgsLine>>

\* the lines a requirements file is written with
ReqLines ==
    { <<"a", EQ, EQ, "1", NL>>, <<SP, "a", SP, EQ, EQ, SP, "3", NL>>,
      <<"a", "[", "x", "]", EQ, EQ, "1", NL>>, <<"b", "~", EQ, "9", NL>>,
      <<"#", SP, "b", EQ, EQ, "9", NL>>, <<NL>> }

ReqFile2 == <<<<"a", EQ, EQ, "2", NL>>, <<"b", EQ, EQ, "3">>>>

\* importlib.metadata.distributions(): name -> version
Envs ==
    { <<>>, (<<"a">> :> <<"1">>), (<<"a">> :> <<"1">>) @@ (<<"b">> :> <<"3">>) }

RequirementsArgs == {<<>>, <<"r1">>, <<"r1", "r2">>, <<"r2", "r1">>}
PipInstallArgs == {<<>>, <<"a">>, <<"a", "b">>}

NoTemp == [exists |-> FALSE, text |-> <<>>]

-----------------------------------------------------------------------------
VARIABLES
    opts,               \* argparse result: in_place, no_install, requirements, pip_install
    reqfiles,           \* the requirements files: name -> lines
    env,                \* the installed distributions: name -> version
    config,             \* the lines of .pre-commit-config.yaml
    tmp,                \* the NamedTemporaryFile of the in-place branch
    stdout,             \* the lines written to sys.stdout
    pc,                 \* where the run is; "done" is exit 0, "failed" a traceback
    error,              \* the exception that ended the run, "" when none
    errline,            \* the line a ValueError names
    package_versions,   \* main(): name -> version
    reqi, linei,        \* main(): the requirements file and line being read
    dependencies,       \* do(): the list read from the structured document
    new_deps,           \* do(): the list being built
    di,                 \* do(): the index of dep in dependencies
    state, indent,      \* UpdateDependencies: the cursor state and the indent
    fp,                 \* UpdateDependencies.__iter__: the next line of the file
    outfp,              \* the lines writelines() has written to the output sink
    installs,           \* the pip invocations this run has made
    introspections,     \* the calls of importlib.metadata.distributions() this run
    runs,               \* invocations of the command so far
    config0,            \* the configuration file as this run found it
    prev                \* the configuration file and version map the previous run left

vars ==
    <<opts, reqfiles, env, config, tmp, stdout, pc, error, errline,
      package_versions, reqi, linei, dependencies, new_deps, di, state, indent,
      fp, outfp, installs, introspections, runs, config0, prev>>

inputs == <<opts, reqfiles>>
locals ==
    <<package_versions, reqi, linei, dependencies, new_deps, di, state, indent, fp>>

\* the state main() starts from
Fresh ==
    /\ tmp = NoTemp
    /\ stdout = <<>>
    /\ pc = "start"
    /\ error = ""
    /\ errline = <<>>
    /\ package_versions = <<>>
    /\ reqi = 1
    /\ linei = 1
    /\ dependencies = <<>>
    /\ new_deps = <<>>
    /\ di = 1
    /\ state = "pre"
    /\ indent = <<>>
    /\ fp = 1
    /\ outfp = <<>>
    /\ installs = <<>>
    /\ introspections = 0

\* direct-parse runs: the requirements files vary
InitPins ==
    /\ opts \in [in_place : BOOLEAN, no_install : {TRUE},
                 requirements : RequirementsArgs, pip_install : {<<>>, <<"a">>}]
    /\ reqfiles \in [r1 : SeqsUpTo(ReqLines, MaxReqLines), r2 : {ReqFile2}]
    /\ env = (<<"b">> :> <<"3">>)
    /\ config = BasicConfig

\* installing runs: the command line and the environment vary
InitInstall ==
    /\ opts \in [in_place : BOOLEAN, no_install : {FALSE},
                 requirements : RequirementsArgs, pip_install : PipInstallArgs]
    /\ reqfiles = [r1 |-> <<<<"a", EQ, EQ, "1", NL>>>>, r2 |-> ReqFile2]
    /\ env \in Envs
    /\ config = BasicConfig

\* rewriting runs: the configuration file varies
InitConfig ==
    /\ opts \in [in_place : BOOLEAN, no_install : {TRUE}, requirements : {<<>>},
                 pip_install : {<<>>}]
    /\ reqfiles = [r1 |-> <<>>, r2 |-> ReqFile2]
    /\ env \in Envs \ {<<>>}
    /\ config \in Configs

Init ==
    /\ InitPins \/ InitInstall \/ InitConfig
    /\ Fresh
    /\ runs = 1
    /\ config0 = config
    /\ prev = [text |-> <<>>, versions |-> <<>>]

-----------------------------------------------------------------------------
\* a variant whose temporary file outlives the exception (delete=False)
FailKeepsTemp(exc) ==
    /\ pc' = "failed"
    /\ error' = exc
    /\ tmp' = tmp

\* an exception leaves main(): the with block deletes the temporary file on
\* the way out and the interpreter exits non-zero
Fail(exc) ==
    /\ pc' = "failed"
    /\ error' = exc
    /\ tmp' = NoTemp

\* main(), lines 103-105, 122, 135: parse_args and the choice of the branch
Start ==
    /\ pc = "start"
    /\ pc' = Branch(opts)
    /\ UNCHANGED <<inputs, env, config, tmp, stdout, error, errline, locals, outfp,
                   installs, introspections, runs, config0, prev>>

\* main(), lines 106-115: pip_args and subprocess.check_call
Install ==
    /\ pc = "install"
    /\ IF PipArgs(opts) = <<>>
       THEN /\ pc' = "introspect"
            /\ UNCHANGED <<env, installs, error, tmp>>
       ELSE /\ installs' = Append(installs, <<"python", "-m", "pip", "install">> \o PipArgs(opts))
            /\ env' \in Envs
            /\ \/ pc' = "introspect" /\ UNCHANGED <<error, tmp>>
               \/ Fail("CalledProcessError")
    /\ UNCHANGED <<inputs, config, stdout, errline, locals, outfp, introspections,
                   runs, config0, prev>>

\* main(), lines 117-120 and 137-140: importlib.metadata.distributions()
Introspect ==
    /\ pc = "introspect"
    /\ package_versions' = env
    /\ introspections' = introspections + 1
    /\ pc' = "output"
    /\ UNCHANGED <<inputs, env, config, tmp, stdout, error, errline, reqi, linei,
                   dependencies, new_deps, di, state, indent, fp, outfp, installs,
                   runs, config0, prev>>

\* main(), lines 123-133: one line of one requirements file
ParseLine ==
    /\ pc = "parse"
    /\ reqi <= Len(opts.requirements)
    /\ linei <= Len(reqfiles[opts.requirements[reqi]])
    /\ LET line == Strip(reqfiles[opts.requirements[reqi]][linei])
           m == PinMatch(line)
       IN  IF StartsWith(line, <<"#">>) \/ line = <<>>
           THEN /\ linei' = linei + 1
                /\ UNCHANGED <<package_versions, pc, error, errline, tmp>>
           ELSE IF m.ok
           THEN /\ package_versions' = Store(package_versions, m.name, m.version)
                /\ linei' = linei + 1
                /\ UNCHANGED <<pc, error, errline, tmp>>
           ELSE /\ Fail("ValueError")
                /\ errline' = line
                /\ UNCHANGED <<package_versions, linei>>
    /\ UNCHANGED <<inputs, env, config, stdout, reqi, dependencies, new_deps, di,
                   state, indent, fp, outfp, installs, introspections, runs,
                   config0, prev>>

\* main(), lines 124-125: the end of a requirements file, and of the last one
NextFile ==
    /\ pc = "parse"
    /\ IF reqi > Len(opts.requirements)
       THEN pc' = "output" /\ UNCHANGED <<reqi, linei>>
       ELSE /\ linei > Len(reqfiles[opts.requirements[reqi]])
            /\ reqi' = reqi + 1
            /\ linei' = 1
            /\ pc' = pc
    /\ UNCHANGED <<inputs, env, config, tmp, stdout, error, errline, package_versions,
                   dependencies, new_deps, di, state, indent, fp, outfp, installs,
                   introspections, runs, config0, prev>>

\* main(), lines 142-143 and 147-148: the output sink is chosen
Output ==
    /\ pc = "output"
    /\ tmp' = IF opts.in_place THEN [exists |-> TRUE, text |-> <<>>] ELSE tmp
    /\ pc' = "load"
    /\ UNCHANGED <<inputs, env, config, stdout, error, errline, locals, outfp,
                   installs, introspections, runs, config0, prev>>

\* do(), lines 52-62: the structured read
Load ==
    /\ pc = "load"
    /\ LET r == Lookup(config, MypyUrl)
       IN  IF r.err # ""
           THEN Fail(r.err) /\ UNCHANGED <<dependencies, new_deps, di>>
           ELSE /\ dependencies' = r.deps
                /\ new_deps' = <<>>
                /\ di' = 1
                /\ pc' = "deps"
                /\ UNCHANGED <<error, tmp>>
    /\ UNCHANGED <<inputs, env, config, stdout, errline, package_versions, reqi, linei,
                   state, indent, fp, outfp, installs, introspections, runs,
                   config0, prev>>

\* do(), lines 63-69: one dependency
DepStep ==
    /\ pc = "deps"
    /\ di <= Len(dependencies)
    /\ new_deps' = Append(new_deps, NewDep(dependencies[di], package_versions))
    /\ stdout' = IF SplitName(dependencies[di]) \in DOMAIN package_versions
                 THEN stdout
                 ELSE Append(stdout, Diagnostic(SplitName(dependencies[di])))
    /\ di' = di + 1
    /\ UNCHANGED <<inputs, env, config, tmp, pc, error, errline, package_versions,
                   reqi, linei, dependencies, state, indent, fp, outfp, installs,
                   introspections, runs, config0, prev>>

\* do(), line 71, and UpdateDependencies.__init__: the rewriter is built
StartRewrite ==
    /\ pc = "deps"
    /\ di > Len(dependencies)
    /\ state' = "pre"
    /\ indent' = <<>>
    /\ fp' = 1
    /\ pc' = "rewrite"
    /\ UNCHANGED <<inputs, env, config, tmp, stdout, error, errline, package_versions,
                   reqi, linei, dependencies, new_deps, di, outfp, installs,
                   introspections, runs, config0, prev>>

\* writelines() pulls one line of the file through handle()
Handle ==
    /\ pc = "rewrite"
    /\ fp <= Len(config)
    /\ LET h == HandleLine(state, indent, new_deps, config[fp])
       IN  /\ state' = h.state
           /\ indent' = h.indent
           /\ outfp' = outfp \o h.yield
           /\ IF opts.in_place
              THEN tmp' = [tmp EXCEPT !.text = @ \o h.yield] /\ stdout' = stdout
              ELSE stdout' = stdout \o h.yield /\ tmp' = tmp
    /\ fp' = fp + 1
    /\ UNCHANGED <<inputs, env, config, pc, error, errline, package_versions, reqi,
                   linei, dependencies, new_deps, di, installs, introspections, runs,
                   config0, prev>>

\* the file is exhausted: do() returns
Finish ==
    /\ pc = "rewrite"
    /\ fp > Len(config)
    /\ pc' = IF opts.in_place THEN "copy" ELSE "done"
    /\ UNCHANGED <<inputs, env, config, tmp, stdout, error, errline, locals, outfp,
                   installs, introspections, runs, config0, prev>>

\* main(), lines 145-146: flush and shutil.copy
CopyBack ==
    /\ pc = "copy"
    /\ config' = tmp.text
    /\ pc' = "close"
    /\ UNCHANGED <<inputs, env, tmp, stdout, error, errline, locals, outfp, installs,
                   introspections, runs, config0, prev>>

\* main(), line 143: the with block is left, the temporary file is deleted
CloseTemp ==
    /\ pc = "close"
    /\ tmp' = NoTemp
    /\ pc' = "done"
    /\ UNCHANGED <<inputs, env, config, stdout, error, errline, locals, outfp,
                   installs, introspections, runs, config0, prev>>

\* the command is invoked again in the same working directory
Rerun ==
    /\ pc = "done"
    /\ opts.in_place
    /\ runs < MaxRuns
    /\ runs' = runs + 1
    /\ prev' = [text |-> config, versions |-> package_versions]
    /\ config0' = config
    /\ tmp' = NoTemp
    /\ stdout' = <<>>
    /\ pc' = "start"
    /\ error' = ""
    /\ errline' = <<>>
    /\ package_versions' = <<>>
    /\ reqi' = 1
    /\ linei' = 1
    /\ dependencies' = <<>>
    /\ new_deps' = <<>>
    /\ di' = 1
    /\ state' = "pre"
    /\ indent' = <<>>
    /\ fp' = 1
    /\ outfp' = <<>>
    /\ installs' = <<>>
    /\ introspections' = 0
    /\ UNCHANGED <<inputs, env, config>>

Next ==
    \/ Start
    \/ Install
    \/ Introspect
    \/ ParseLine
    \/ NextFile
    \/ Output
    \/ Load
    \/ DepStep
    \/ StartRewrite
    \/ Handle
    \/ Finish
    \/ CopyBack
    \/ CloseTemp
    \/ Rerun

Spec == Init /\ [][Next]_vars

-----------------------------------------------------------------------------
(***************************************************************************)
(* Properties.                                                             *)
(***************************************************************************)
\* the run has built package_versions
Resolved == pc \in {"output", "load", "deps", "rewrite", "copy", "close", "done"}

\* do() has returned: the whole file went through the rewriter
Rewritten == pc \in {"copy", "close", "done"}

\* the text of dep before its first "=", read off the positions of "="
NameOf(dep) ==
    LET k == First({i \in 1..Len(dep) : dep[i] = EQ})
    IN  IF k = 0 THEN dep ELSE SubSeq(dep, 1, k - 1)

\* C1: the list do() builds has one entry per original dependency, in the
\* original order: name==version when the name (the text before the first "=")
\* is a key of the version map, the original specifier when it is not.
C1_NewDepsPinned ==
    pc \in {"deps", "rewrite", "copy", "close", "done"} =>
        /\ Len(new_deps) = di - 1
        /\ di <= Len(dependencies) + 1
        /\ pc # "deps" => Len(new_deps) = Len(dependencies)
        /\ \A i \in 1..Len(new_deps) :
              IF NameOf(dependencies[i]) \in DOMAIN package_versions
              THEN new_deps[i] = NameOf(dependencies[i]) \o <<"=", "=">>
                                    \o package_versions[NameOf(dependencies[i])]
              ELSE new_deps[i] = dependencies[i]

\* a finished run that re-pinned one dependency to another version and kept one
\* whose name (with its range operator) is not installed
C1_Witness ==
    /\ pc = "done"
    /\ dependencies = <<<<"a">>, <<"b", ">", "=", "2">>>>
    /\ new_deps = <<<<"a", "=", "=", "1">>, <<"b", ">", "=", "2">>>>

\* C6: a run that ends in a fatal error has written nothing, has left the
\* configuration file as it found it and has left no temporary file.
C6_FatalLeavesNothing ==
    pc = "failed" =>
        /\ error \in {"IndexError", "KeyError", "ValueError", "CalledProcessError",
                      "TypeError", "YAMLError"}
        /\ outfp = <<>>
        /\ stdout = <<>>
        /\ config = config0
        /\ ~tmp.exists

\* an in-place run whose first mypy hook has no additional_dependencies key
C6_Witness ==
    /\ pc = "failed"
    /\ error = "KeyError"
    /\ opts.in_place
    /\ runs = 1

-----------------------------------------------------------------------------
\* the run parses requirements files directly
DirectParse == opts.no_install /\ opts.requirements # <<>>

\* every <<file, line>> position of the requirements files of the command line
ReqPositions ==
    UNION {{<<f, l>> : l \in 1..Len(reqfiles[opts.requirements[f]])} :
              f \in 1..Len(opts.requirements)}

\* the lines of the requirements files main() has read past without an error,
\* as <<file, line>> positions
Passed ==
    {p \in ReqPositions : p[1] < reqi \/ (p[1] = reqi /\ p[2] < linei)}

ReqLineAt(p) == reqfiles[opts.requirements[p[1]]][p[2]]

\* a blank line, or a line whose first non-space character is "#"
Skipped(line) ==
    \/ \A i \in 1..Len(line) : line[i] \in Whitespace
    \/ \E k \in 1..Len(line) :
          /\ line[k] = "#"
          /\ \A i \in 1..(k - 1) : line[i] \in Whitespace

\* exactly <name>==<version>: no whitespace inside the pin, no extras, no range
ExactPin(line) ==
    LET s == Strip(line)
        plain(i) == s[i] \notin Whitespace \cup {"=", "[", "]", "<", ">", "~", "!"}
    IN  \E k \in 2..(Len(s) - 2) :
           /\ s[k] = "=" /\ s[k + 1] = "="
           /\ \A i \in 1..Len(s) : i \notin {k, k + 1} => plain(i)

\* a whitespace-free name, optional whitespace, "==", optional whitespace and a
\* whitespace-free version
LoosePin(line) ==
    LET s == Strip(line)
    IN  \E a \in 1..Len(s), k \in 2..(Len(s) - 2), b \in 4..Len(s) :
           /\ a < k /\ k + 1 < b
           /\ s[k] = "=" /\ s[k + 1] = "="
           /\ \A i \in 1..a : s[i] \notin Whitespace
           /\ \A i \in (a + 1)..(k - 1) : s[i] \in Whitespace
           /\ \A i \in (k + 2)..(b - 1) : s[i] \in Whitespace
           /\ \A i \in b..Len(s) : s[i] \notin Whitespace

\* C8 as stated: in direct-parse mode every line that is neither blank nor a
\* comment is accepted only if it is exactly <name>==<version>; any other line
\* ends the run with an error naming it, before any output.
C8_Original ==
    DirectParse =>
        /\ \A p \in Passed : Skipped(ReqLineAt(p)) \/ ExactPin(ReqLineAt(p))
        /\ error = "ValueError" =>
              /\ ~Skipped(ReqLineAt(<<reqi, linei>>))
              /\ ~ExactPin(ReqLineAt(<<reqi, linei>>))
              /\ errline = Strip(ReqLineAt(<<reqi, linei>>))
              /\ outfp = <<>> /\ stdout = <<>>

\* C8 as amended: in direct-parse mode every line that is neither blank nor a
\* comment is accepted only if, stripped, it is a whitespace-free name, optional
\* whitespace, "==", optional whitespace and a whitespace-free version; a line
\* of that shape is never the cause of the error; any other line ends the run
\* with an error naming it, before any output.
C8_LoosePinsOnly ==
    DirectParse =>
        /\ \A p \in Passed : Skipped(ReqLineAt(p)) \/ LoosePin(ReqLineAt(p))
        /\ error = "ValueError" =>
              /\ ~Skipped(ReqLineAt(<<reqi, linei>>))
              /\ ~LoosePin(ReqLineAt(<<reqi, linei>>))
              /\ errline = Strip(ReqLineAt(<<reqi, linei>>))
              /\ outfp = <<>> /\ stdout = <<>>

\* a run that accepted a pin written with whitespace around "==" and then
\* failed on the line b~=9
C8_Witness ==
    /\ DirectParse
    /\ pc = "failed"
    /\ error = "ValueError"
    /\ errline = <<"b", "~", "=", "9">>
    /\ <<"a">> \in DOMAIN package_versions
    /\ package_versions[<<"a">>] = <<"3">>

-----------------------------------------------------------------------------
\* the pin lines of the requirements files, as positions
PinPositions == {p \in ReqPositions : ~Skipped(ReqLineAt(p))}

PinNameAt(p) == PinMatch(Strip(ReqLineAt(p))).name
PinVersionAt(p) == PinMatch(Strip(ReqLineAt(p))).version

\* position p comes after position q in reading order
Later(p, q) == p[1] > q[1] \/ (p[1] = q[1] /\ p[2] > q[2])

\* the map the pin lines denote: for every name the version of its last pin
PinsOfFiles ==
    [n \in {PinNameAt(p) : p \in PinPositions} |->
        PinVersionAt(CHOOSE p \in PinPositions :
                        /\ PinNameAt(p) = n
                        /\ \A q \in PinPositions : PinNameAt(q) = n => ~Later(q, p))]

\* the arguments of the one install invocation: -r FILE per requirements file
\* in order, then every explicit specifier in order
InstallArgsInOrder(args) ==
    LET nr == Len(opts.requirements)
        np == Len(opts.pip_install)
    IN  /\ Len(args) = 4 + 2 * nr + np
        /\ SubSeq(args, 1, 4) = <<"python", "-m", "pip", "install">>
        /\ \A i \in 1..nr : args[4 + 2 * i - 1] = "-r"
                            /\ args[4 + 2 * i] = opts.requirements[i]
        /\ \A j \in 1..np : args[4 + 2 * nr + j] = opts.pip_install[j]

\* what C10 says of a run that does not ask for direct parse
InstallThenIntrospect ==
    /\ Len(installs) <= 1
    /\ installs # <<>> => InstallArgsInOrder(installs[1])
    /\ (opts.requirements = <<>> /\ opts.pip_install = <<>>) => installs = <<>>
    /\ introspections <= 1
    /\ Resolved =>
          /\ introspections = 1
          /\ package_versions = env
          /\ (opts.requirements # <<>> \/ opts.pip_install # <<>>) => Len(installs) = 1
    /\ outfp # <<>> => Resolved

\* C10 as stated: the direct-parse flag alone fixes the source of the map.
\* With --no-install no install runs, the environment is never introspected and
\* the map holds the pins of the requirements files (empty without a file);
\* without it at most one install runs, with the ordered arguments, and the map
\* is the environment introspected afterwards.
C10_Original ==
    IF opts.no_install
    THEN /\ installs = <<>>
         /\ introspections = 0
         /\ Resolved => package_versions = PinsOfFiles
    ELSE InstallThenIntrospect

\* C10 as amended: with --no-install and at least one requirements file no
\* install runs, the environment is never introspected and the map holds the
\* pins of the files, a later pin of a name replacing an earlier one; with
\* --no-install and no requirements file no install runs and the map is the
\* introspected environment; without --no-install at most one install runs,
\* with the ordered arguments, before any rewriting, and the map is the
\* environment introspected afterwards.
C10_MapSource ==
    IF DirectParse
    THEN /\ installs = <<>>
         /\ introspections = 0
         /\ Resolved => package_versions = PinsOfFiles
    ELSE IF opts.no_install
    THEN /\ installs = <<>>
         /\ introspections <= 1
         /\ Resolved => introspections = 1 /\ package_versions = env
         /\ outfp # <<>> => Resolved
    ELSE InstallThenIntrospect

\* a direct-parse run, given a specifier to install, that read a==1 from the
\* first file and a==2 from the second and rewrote with a at 2
C10_Witness ==
    /\ pc = "done"
    /\ opts.no_install
    /\ opts.pip_install # <<>>
    /\ opts.requirements = <<"r1", "r2">>
    /\ reqfiles.r1 = <<<<"a", "=", "=", "1", "\n">>>>
    /\ package_versions[<<"a">>] = <<"2">>
    /\ installs = <<>>

-----------------------------------------------------------------------------
\* the first line of the file this run read whose stripped text is the key,
\* 0 when there is none: the line after which the rewriter replaces
TargetKey == First({i \in 1..Len(config0) : Strip(config0[i]) = <<Key>>})

\* the item lines of the list under that key, as the structured read sees it
OldItems == IF TargetKey = 0 THEN {} ELSE Block(config0, TargetKey).idx

\* the lines at the positions in S, in file order
RECURSIVE Select(_, _, _)
Select(file, i, S) ==
    IF i > Len(file) THEN <<>>
    ELSE (IF i \in S THEN <<file[i]>> ELSE <<>>) \o Select(file, i + 1, S)

\* a is b with some lines left out
RECURSIVE IsSubsequence(_, _)
IsSubsequence(a, b) ==
    IF a = <<>> THEN TRUE
    ELSE IF b = <<>> THEN FALSE
    ELSE IF Head(a) = Head(b) THEN IsSubsequence(Tail(a), Tail(b))
    ELSE IsSubsequence(a, Tail(b))

\* C2: every line of the input that is not an item line of the original list
\* is in the output unchanged, in the same relative order.
C2_OtherLinesKept ==
    Rewritten =>
        IsSubsequence(Select(config0, 1, (1..Len(config0)) \ OldItems), outfp)

\* C9: right after the additional_dependencies: line the output holds one
\* line per new dependency, in order, indented by the key's indent plus two
\* spaces and double-quoted, and no item line of the original list follows.
C9_ListReplaced ==
    (Rewritten /\ TargetKey # 0) =>
        LET k == TargetKey
            n == Len(new_deps)
            ind == Spaces(LeadingSpaces(config0[k]))
        IN  /\ Len(outfp) >= k + n
            /\ \A i \in 1..n :
                  outfp[k + i] = ind \o <<" ", " ", "-", " ", "\"">> \o new_deps[i]
                                     \o <<"\"", "\n">>
            /\ \A j \in OldItems : \A m \in (k + n + 1)..Len(outfp) :
                  outfp[m] # config0[j]

\* the file holds an entry other than the mypy entry with a list of its own,
\* and the key line of the mypy entry's list is one the rewriter recognises
HasOtherList ==
    /\ Lookup(config0, OtherUrl).err = ""
    /\ Lookup(config0, MypyUrl).key # 0
    /\ Strip(config0[Lookup(config0, MypyUrl).key]) = <<Key>>

\* C3: the list the rewrite replaces is the list of the mirrors-mypy entry:
\* in a file where another entry has an additional_dependencies list too,
\* that list is unchanged in the output and the mypy entry's list is the new one.
C3_OnlyMypyList ==
    (Rewritten /\ HasOtherList) =>
        /\ Lookup(outfp, OtherUrl).deps = Lookup(config0, OtherUrl).deps
        /\ Lookup(outfp, MypyUrl).deps = new_deps

\* C4: a second in-place run with the same version map leaves the file the
\* first run wrote unchanged.
C4_Idempotent ==
    (pc = "done" /\ runs >= 2 /\ package_versions = prev.versions) =>
        config = prev.text

\* C5: a finished run without --in-place has written to standard output the
\* rewritten text and nothing else: no diagnostic line is part of it.
C5_StdoutIsRewrittenText ==
    (pc = "done" /\ ~opts.in_place) => stdout = outfp

\* C7: a run that exits zero read a file with a line whose stripped text is
\* exactly additional_dependencies: (a file without one is a fatal mismatch).
C7_MissingKeyLineIsFatal ==
    pc = "done" => TargetKey # 0

=============================================================================
